---- MODULE Spec2Model ----
(***************************************************************************)
(* VoiceStreamAI, test-client-class/test.py: the SpeechClient bridge (the *)
(* command loop on the voice-control host connection) and the             *)
(* VoiceStreamClient instances it creates (transcription connection,      *)
(* capture callback, receive loop).                                       *)
(*                                                                         *)
(* Granularity.  The bridge runs on the main asyncio loop: the code       *)
(* between two awaits that really suspend (websockets.connect, the next   *)
(* message of `async for`, asyncio.sleep) is one step.  ws.send puts the  *)
(* message on the wire before it can suspend, or raises.  Each            *)
(* VoiceStreamClient has its own loop thread, on which connect_and_receive*)
(* and the send_audio tasks run, and a capture thread that only queues    *)
(* send_audio tasks.  voice_stream_callback runs on the client's loop     *)
(* thread, so it is split into the receipt of the response and the        *)
(* decode-and-send, which interleave with the bridge.                     *)
(*                                                                         *)
(* Spec is the bridge with the sessions it starts and stops, over any      *)
(* sequence of host messages, send failures and reconnects.  SessionSpec   *)
(* is one session from the handling of its start command on, with all the  *)
(* threads of its VoiceStreamClient: capture, the send_audio tasks, the    *)
(* transcription connection closing and the reconnect.                     *)
(* ReconnectSpec is the bridge up to the stop command, for every cap of    *)
(* the backoff: the losses of the host connection, the backoff and the     *)
(* session across them.  ThreadSpec is the re-making of the host           *)
(* connection of an Active session with connect and the callback split at  *)
(* their sends, for what the two threads do to the same connection.        *)
(***************************************************************************)
EXTENDS Integers, Sequences, FiniteSets, TLC

\* ---- bounds of the model
MaxClients == 1      \* VoiceStreamClient instances that exist at once
MaxSent == 4         \* messages sent on one host connection
MaxFrames == 2       \* frames captured per client
MaxOpens == 2        \* transcription connections made per client

\* ---- program constants
\* Delays are in units of 5 ms, so that a tenth of a delay is a whole number.
BaseDelay == 100                 \* retry_delay = 0.5
DefaultMaxRetryDelay == 6000     \* max_retry_delay=30, the default of __init__

\* The caps SpeechClient is constructed with: the default, and 0.2 s, 0.5 s
\* and 1.5 s (below the base delay, equal to it, and between two doublings).
Caps == {40, BaseDelay, 300, DefaultMaxRetryDelay}

None == 0
NoneLang == "None"
Langs == {"english", "french"}
Absent == "absent"

VARIABLES
    active,               \* SpeechClient.active
    voice_stream_client,  \* SpeechClient.voice_stream_client: None or a client id
    ws,                   \* SpeechClient.ws: None or the last host connection made
    hostOpen,             \* whether the host connection self.ws is open
    hostSent,             \* messages sent on the host connection self.ws, in
                          \* order; emptied when the connection is lost
    bpc,                  \* where SpeechClient.connect is: "connect", "handle",
                          \* "backoff" (in an except handler), "sleeping"
    retry_delay,          \* local retry_delay of SpeechClient.connect
    max_retry_delay,      \* SpeechClient.max_retry_delay
    sleeping,             \* the delay asyncio.sleep was called with in
                          \* backoff_delay, while it sleeps; 0 otherwise
    last,                 \* what the last handled host message was and did
    clients               \* the VoiceStreamClient instances, by id

vars == <<active, voice_stream_client, ws, hostOpen, hostSent, bpc, retry_delay,
          max_retry_delay, sleeping, last, clients>>

\* The object websockets.connect returns.
Connection == 1

ClientIds == 1..MaxClients

\* ---- messages

\* An inbound text message of the host connection: wf = it is JSON, obj = the
\* JSON value is an object, cmd and lang = its fields (Absent when missing).
HostMsg(wf, obj, cmd, lang) == [wf |-> wf, obj |-> obj, cmd |-> cmd, lang |-> lang]

HostMsgs ==
    {HostMsg(TRUE, TRUE, "start", l) : l \in Langs}
    \cup {HostMsg(TRUE, TRUE, c, Absent) : c \in {"stop", "reload", "other", Absent}}
    \cup {HostMsg(TRUE, FALSE, Absent, Absent), HostMsg(FALSE, FALSE, Absent, Absent)}

\* An inbound message of the transcription connection.
Response(wf, obj, text, confidence) ==
    [wf |-> wf, obj |-> obj, text |-> text, confidence |-> confidence]

Responses ==
    {Response(TRUE, TRUE, "hello world", 92),
     Response(TRUE, TRUE, Absent, -1),
     Response(TRUE, FALSE, Absent, -1),
     Response(FALSE, FALSE, Absent, -1)}

NoResponse == Response(FALSE, FALSE, "", -1)

\* Messages the bridge sends to the host.
HostOut(cmd) == [cmd |-> cmd, transcript |-> "", confidence |-> 0]
Phrase(transcript, confidence) ==
    [cmd |-> "phrase", transcript |-> transcript, confidence |-> confidence]

\* Messages a VoiceStreamClient sends to the transcription service.
Config(language) == [type |-> "config", language |-> language, frame |-> 0]
Audio(frame) == [type |-> "audio", language |-> "", frame |-> frame]

\* json.loads followed by data.get(key, default): the value, or the exception.
JsonError(m) == IF ~m.wf THEN "JSONDecodeError"
                ELSE IF ~m.obj THEN "AttributeError"
                ELSE "ok"

Get(value, default) == IF value = Absent THEN default ELSE value
GetNumber(value, default) == IF value < 0 THEN default ELSE value

\* ---- VoiceStreamClient (operators on one instance's fields)

\* __init__: the fields, the event loop (not running), and the capture stream,
\* which PyAudio opens started (start=True is the default of audio.open).
\* rpc is where connect_and_receive is; tasks are the frames of the
\* send_audio tasks queued on the loop; wire is what was sent on self.ws.
\* ws is None or the number of the connection (the first, the second, ...);
\* cb is how the last callback ended; nFrames counts the frames captured;
\* dropped are the frames whose send_audio ended without sending.
VoiceStreamClient(language) ==
    [language |-> language, ws |-> None, wsOpen |-> FALSE, stop_event |-> FALSE,
     loop |-> "new", stream |-> "started", audio |-> "open",
     rpc |-> "none", tasks |-> <<>>, wire |-> <<>>, response |-> NoResponse,
     cb |-> "none", nFrames |-> 0, dropped |-> {}]

\* run: start the loop thread and schedule connect_and_receive, whose first
\* step reaches `await websockets.connect` in connect.
run(cl) == [cl EXCEPT !.loop = "running", !.rpc = "opening"]

\* stop: the steps in order; failAt names the PyAudio call that raises
\* ("none": no call raises), after which the rest of stop is skipped.
\* loop.stop is queued on the loop: the loop thread first finishes what is
\* ready (a callback in progress, the send_audio tasks queued before) and is
\* "stopping" until it has; with nothing ready it stops.
stop(cl, failAt) ==
    LET a == [cl EXCEPT !.stop_event = TRUE,
                        !.loop = IF @ # "running" THEN @
                                 ELSE IF cl.rpc = "callback" \/ cl.tasks # <<>>
                                      THEN "stopping" ELSE "stopped"]
        b == [a EXCEPT !.stream = "stopped"]
        c == [b EXCEPT !.stream = "closed"]
        d == [c EXCEPT !.audio = "terminated"]
    IN CASE failAt = "stop_stream" -> a
         [] failAt = "close" -> b
         [] failAt = "terminate" -> c
         [] OTHER -> d

StopFailures == {"none", "stop_stream", "close", "terminate"}

\* connect with a handshake only on the first connection: a reconnect resumes
\* the frame stream on the new connection.
connect_resumed(cl, outcome) ==
    CASE outcome = "refused" -> cl
      [] outcome = "config_failed" ->
            [cl EXCEPT !.ws = @ + 1, !.wsOpen = FALSE, !.wire = <<>>]
      [] OTHER ->
            [cl EXCEPT !.ws = @ + 1, !.wsOpen = TRUE,
                       !.wire = IF cl.ws = None THEN <<Config(cl.language)>>
                                ELSE <<>>]

\* connect with a config built from the default language of __init__ instead
\* of self.language.
connect_default(cl, outcome) ==
    CASE outcome = "refused" -> cl
      [] outcome = "config_failed" ->
            [cl EXCEPT !.ws = @ + 1, !.wsOpen = FALSE, !.wire = <<>>]
      [] OTHER ->
            [cl EXCEPT !.ws = @ + 1, !.wsOpen = TRUE,
                       !.wire = <<Config("english")>>]

\* connect: outcome "refused" = websockets.connect raises (self.ws is left as
\* it was); "ok" = the connection is opened and the config is sent on it;
\* "config_failed" = the connection is opened and is closed again before the
\* config is sent, so that ws.send raises.
connect(cl, outcome) ==
    CASE outcome = "refused" -> cl
      [] outcome = "config_failed" ->
            [cl EXCEPT !.ws = @ + 1, !.wsOpen = FALSE, !.wire = <<>>]
      [] OTHER ->
            [cl EXCEPT !.ws = @ + 1, !.wsOpen = TRUE,
                       !.wire = <<Config(cl.language)>>]

ConnectOutcomes == {"ok", "refused", "config_failed"}

\* send_audio where the task that runs is the one queued last.
send_audio_newest(cl) ==
    LET n == Len(cl.tasks)
        frame == cl.tasks[n]
    IN IF cl.ws # None /\ cl.wsOpen
       THEN [cl EXCEPT !.tasks = SubSeq(@, 1, n - 1),
                       !.wire = Append(@, Audio(frame))]
       ELSE [cl EXCEPT !.tasks = SubSeq(@, 1, n - 1),
                       !.dropped = @ \cup {frame}]

\* send_audio that keeps a frame it cannot send and sends it when the
\* connection is back.
send_audio_buffered(cl) ==
    LET frame == Head(cl.tasks) IN
    IF cl.ws # None /\ cl.wsOpen
    THEN [cl EXCEPT !.tasks = Tail(@), !.wire = Append(@, Audio(frame))]
    ELSE [cl EXCEPT !.dropped = @ \cup {frame}]

\* send_audio: one queued task runs.  With self.ws set and open the frame is
\* sent; with self.ws set and closed ws.send raises in the task; with self.ws
\* None the error is logged.  In the last two cases the frame is gone.
send_audio(cl) ==
    LET frame == Head(cl.tasks) IN
    IF cl.ws # None /\ cl.wsOpen
    THEN [cl EXCEPT !.tasks = Tail(@), !.wire = Append(@, Audio(frame))]
    ELSE [cl EXCEPT !.tasks = Tail(@), !.dropped = @ \cup {frame}]

\* pyaudio_callback: queues a send_audio task for the frame on the loop.
pyaudio_callback(cl) ==
    [cl EXCEPT !.nFrames = @ + 1, !.tasks = Append(@, cl.nFrames + 1)]

\* The top of the `while not self.stop_event.is_set()` loop of
\* receive_response, reached after an iteration: leave, or await ws.recv().
LoopTop(cl) == IF cl.stop_event THEN "done" ELSE "recv"

\* The place of an instance that does not exist: none was constructed, or
\* stop_speech has stopped it and set voice_stream_client to None.
NoInstance ==
    [VoiceStreamClient(NoneLang) EXCEPT
       !.stop_event = TRUE, !.loop = "stopped", !.stream = "closed",
       !.audio = "terminated", !.rpc = "collected"]

\* An instance whose loop thread has ended and that stop_speech has dropped
\* (ref, the bridge's voice_stream_client, is not c): nothing refers to it and
\* nothing of it runs, so it is gone.
Collect(c, ref, cl) ==
    IF ref # c /\ cl.loop = "stopped" THEN NoInstance ELSE cl

\* ---- SpeechClient

\* voice_stream_callback without its `except Exception` handler.
voice_stream_callback_narrow(response, sendOk) ==
    LET err == JsonError(response) IN
    IF err = "JSONDecodeError"
    THEN [sent |-> <<>>, exc |-> "none", log |-> "Error decoding JSON"]
    ELSE IF err = "AttributeError"
    THEN [sent |-> <<>>, exc |-> "AttributeError", log |-> "none"]
    ELSE IF ~sendOk
    THEN [sent |-> <<>>, exc |-> "ConnectionClosed", log |-> "none"]
    ELSE [sent |-> <<Phrase(Get(response.text, ""),
                            GetNumber(response.confidence, 0))>>,
          exc |-> "none", log |-> "phrase"]

\* voice_stream_callback(response), with sendOk = whether self.ws.send of the
\* phrase succeeds: the messages it sends, the exception that leaves it
\* ("none": it returns) and what it logs.  json.JSONDecodeError is caught by
\* the first handler; the AttributeError of .get on a non-object and the
\* ConnectionClosed of a failed send by the second.
voice_stream_callback(response, sendOk) ==
    LET err == JsonError(response) IN
    IF err = "JSONDecodeError"
    THEN [sent |-> <<>>, exc |-> "none", log |-> "Error decoding JSON"]
    ELSE IF err = "AttributeError"
    THEN [sent |-> <<>>, exc |-> "none", log |-> "Error in voice stream callback"]
    ELSE IF ~sendOk
    THEN [sent |-> <<>>, exc |-> "none", log |-> "Error in voice stream callback"]
    ELSE [sent |-> <<Phrase(Get(response.text, ""),
                            GetNumber(response.confidence, 0))>>,
          exc |-> "none", log |-> "phrase"]

\* What the last handled message did: whether the session was active before,
\* how many instances it constructed and how many stop() calls it made.
Did(m, preActive, created, stops) ==
    IF JsonError(m) = "ok" /\ m.cmd \in {"start", "stop"}
    THEN [cmd |-> m.cmd, preActive |-> preActive, created |-> created,
          stops |-> stops]
    ELSE [cmd |-> "other", preActive |-> FALSE, created |-> 0, stops |-> 0]

NoMsg == [cmd |-> "none", preActive |-> FALSE, created |-> 0, stops |-> 0]

\* SpeechClient(max_retry_delay=cap), and connect() up to its loop.
Constructed(cap) ==
    /\ active = FALSE
    /\ voice_stream_client = None
    /\ ws = None
    /\ hostOpen = FALSE
    /\ hostSent = <<>>
    /\ bpc = "connect"
    /\ retry_delay = BaseDelay
    /\ max_retry_delay = cap
    /\ sleeping = 0
    /\ last = NoMsg
    /\ clients = [c \in ClientIds |-> NoInstance]

\* main: SpeechClient() with the default cap.
Init == Constructed(DefaultMaxRetryDelay)

Min(a, b) == IF a < b THEN a ELSE b

\* The delay doubled without the cap.
next_delay_uncapped(delay, cap) == delay * 2

\* The delay after a failure: min(retry_delay * 2, self.max_retry_delay).
next_delay(delay, cap) == Min(delay * 2, cap)

\* random.uniform(0, 0.1 * delay): the least, a middle and the greatest value
\* it can draw.
Draws == {"least", "middle", "greatest"}
uniform(delay, draw) ==
    CASE draw = "least" -> 0
      [] draw = "middle" -> delay \div 20
      [] OTHER -> delay \div 10

\* backoff_delay(delay): what it sleeps, with its draw of the jitter.
backoff_delay(delay, draw) == delay + uniform(delay, draw)

\* ws.send(message) succeeds on the open host connection.
Sent(message) == hostSent' = Append(hostSent, message)

\* An exception leaves handle_messages: `async with` closes the connection
\* and one of the two handlers of connect calls backoff_delay.
Raised ==
    /\ hostOpen' = FALSE
    /\ hostSent' = <<>>
    /\ bpc' = "backoff"

\* connect that keeps the grown delay when the connection is made.
BridgeConnect_noreset(outcome) ==
    /\ bpc = "connect"
    /\ CASE outcome = "refused" ->
              /\ bpc' = "backoff"
              /\ hostSent' = <<>>
              /\ UNCHANGED <<ws, hostOpen>>
         [] outcome = "hello_failed" ->
              /\ ws' = Connection
              /\ Raised
         [] OTHER ->
              /\ ws' = Connection
              /\ hostOpen' = TRUE
              /\ hostSent' = <<HostOut("hello")>>
              /\ bpc' = "handle"
    /\ UNCHANGED <<active, voice_stream_client, retry_delay, max_retry_delay,
                   sleeping, last, clients>>

\* connect that starts every new connection with a fresh session.
BridgeConnect_fresh(outcome) ==
    /\ bpc = "connect"
    /\ CASE outcome = "refused" ->
              /\ bpc' = "backoff"
              /\ hostSent' = <<>>
              /\ UNCHANGED <<ws, hostOpen, retry_delay, active, voice_stream_client>>
         [] outcome = "hello_failed" ->
              /\ ws' = Connection
              /\ Raised
              /\ UNCHANGED <<retry_delay, active, voice_stream_client>>
         [] OTHER ->
              /\ ws' = Connection
              /\ hostOpen' = TRUE
              /\ hostSent' = <<HostOut("hello")>>
              /\ retry_delay' = BaseDelay
              /\ bpc' = "handle"
              /\ active' = FALSE
              /\ voice_stream_client' = None
    /\ UNCHANGED <<max_retry_delay, sleeping, last, clients>>

\* connect, one iteration of `while True` up to handle_messages:
\* websockets.connect fails ("refused"), or the connection is made and hello
\* is sent ("ok"), or the connection is made and lost before hello is sent.
BridgeConnect(outcome) ==
    /\ bpc = "connect"
    /\ CASE outcome = "refused" ->
              /\ bpc' = "backoff"
              /\ hostSent' = <<>>
              /\ UNCHANGED <<ws, hostOpen, retry_delay>>
         [] outcome = "hello_failed" ->
              /\ ws' = Connection
              /\ Raised
              /\ UNCHANGED retry_delay
         [] OTHER ->
              /\ ws' = Connection
              /\ hostOpen' = TRUE
              /\ hostSent' = <<HostOut("hello")>>
              /\ retry_delay' = BaseDelay
              /\ bpc' = "handle"
    /\ UNCHANGED <<active, voice_stream_client, max_retry_delay, sleeping, last,
                   clients>>

BridgeOutcomes == {"ok", "refused", "hello_failed"}

\* A handler of connect calls backoff_delay(retry_delay), which draws the
\* jitter and awaits asyncio.sleep.
Sleep(draw) ==
    /\ bpc = "backoff"
    /\ sleeping' = backoff_delay(retry_delay, draw)
    /\ bpc' = "sleeping"
    /\ UNCHANGED <<active, voice_stream_client, ws, hostOpen, hostSent,
                   retry_delay, max_retry_delay, last, clients>>

\* The handlers of connect after backoff_delay has slept.
Backoff ==
    /\ bpc = "sleeping"
    /\ sleeping' = 0
    /\ retry_delay' = next_delay(retry_delay, max_retry_delay)
    /\ bpc' = "connect"
    /\ UNCHANGED <<active, voice_stream_client, ws, hostOpen, hostSent,
                   max_retry_delay, last, clients>>

\* The host connection ends: with a close frame `async for` ends and
\* handle_messages returns, so connect loops without a backoff; without one
\* ConnectionClosedError leaves handle_messages.
HostClosed(clean) ==
    /\ bpc = "handle"
    /\ hostOpen
    /\ hostOpen' = FALSE
    /\ hostSent' = <<>>
    /\ bpc' = IF clean THEN "connect" ELSE "backoff"
    /\ UNCHANGED <<active, voice_stream_client, ws, retry_delay, max_retry_delay,
                   sleeping, last, clients>>

Handling(m) ==
    /\ bpc = "handle"
    /\ hostOpen
    /\ m \in HostMsgs
    /\ Len(hostSent) < MaxSent
    /\ UNCHANGED <<ws, retry_delay, max_retry_delay, sleeping>>

\* handle_messages, a message that json.loads or data.get rejects.
HandleMalformed(m) ==
    /\ Handling(m)
    /\ JsonError(m) # "ok"
    /\ Raised
    /\ last' = Did(m, active, 0, 0)
    /\ UNCHANGED <<active, voice_stream_client, clients>>

\* The places left for a new instance, and the one the next instance takes.
Free == {c \in ClientIds : clients[c] = NoInstance}
New == CHOOSE c \in Free : \A d \in Free : c <= d

\* handle_messages, cmd == "start", with start_speech.  sendOk: the send of
\* the ack succeeds; ctor: "ok", or the call of VoiceStreamClient(...) or of
\* run() that raises.
HandleStart(m, sendOk, ctor) ==
    /\ Handling(m)
    /\ JsonError(m) = "ok"
    /\ m.cmd = "start"
    /\ LET lang == Get(m.lang, NoneLang) IN
       IF active
       THEN /\ last' = Did(m, TRUE, 0, 0)
            /\ UNCHANGED <<active, voice_stream_client, hostOpen, hostSent, bpc,
                           clients>>
       ELSE /\ active' = TRUE
            /\ IF ~sendOk
               THEN /\ Raised
                    /\ last' = Did(m, FALSE, 0, 0)
                    /\ UNCHANGED <<voice_stream_client, clients>>
               ELSE IF voice_stream_client # None
                    THEN /\ Sent(HostOut("start"))
                         /\ last' = Did(m, FALSE, 0, 0)
                         /\ UNCHANGED <<voice_stream_client, hostOpen, bpc, clients>>
                    ELSE /\ Free # {}
                         /\ IF ctor = "init"
                            THEN /\ Raised
                                 /\ last' = Did(m, FALSE, 0, 0)
                                 /\ UNCHANGED <<voice_stream_client, clients>>
                            ELSE /\ clients' =
                                      [clients EXCEPT
                                         ![New] = run(VoiceStreamClient(lang))]
                                 /\ voice_stream_client' = New
                                 /\ last' = Did(m, FALSE, 1, 0)
                                 /\ IF ctor = "run"
                                    THEN Raised
                                    ELSE /\ Sent(HostOut("start"))
                                         /\ UNCHANGED <<hostOpen, bpc>>

CtorOutcomes == {"ok", "init", "run"}

\* handle_messages, cmd == "stop", with stop_speech.  sendOk: the send of the
\* ack succeeds; failAt: the call of stop() that raises, or "none".
HandleStop(m, sendOk, failAt) ==
    /\ Handling(m)
    /\ JsonError(m) = "ok"
    /\ m.cmd = "stop"
    /\ active' = FALSE
    /\ IF ~sendOk
       THEN /\ Raised
            /\ last' = Did(m, active, 0, 0)
            /\ UNCHANGED <<voice_stream_client, clients>>
       ELSE IF voice_stream_client = None
            THEN /\ Sent(HostOut("end"))
                 /\ last' = Did(m, active, 0, 0)
                 /\ UNCHANGED <<voice_stream_client, hostOpen, bpc, clients>>
            ELSE /\ clients' = [clients EXCEPT ![voice_stream_client] =
                                   Collect(voice_stream_client,
                                           IF failAt = "none" THEN None
                                           ELSE voice_stream_client,
                                           stop(@, failAt))]
                 /\ last' = Did(m, active, 0, 1)
                 /\ IF failAt = "none"
                    THEN /\ Sent(HostOut("end"))
                         /\ voice_stream_client' = None
                         /\ UNCHANGED <<hostOpen, bpc>>
                    ELSE /\ Raised
                         /\ UNCHANGED voice_stream_client

\* handle_messages where reload takes no branch, as any unknown cmd.
HandleReload_ignored(m) ==
    /\ Handling(m)
    /\ JsonError(m) = "ok"
    /\ m.cmd = "reload"
    /\ last' = Did(m, active, 0, 0)
    /\ UNCHANGED <<active, voice_stream_client, hostOpen, hostSent, bpc, clients>>

\* handle_messages, cmd == "reload": it returns, `async with` closes the
\* connection and connect loops.  hostSent keeps what was sent on the
\* connection until the next one is attempted.
HandleReload(m) ==
    /\ Handling(m)
    /\ JsonError(m) = "ok"
    /\ m.cmd = "reload"
    /\ hostOpen' = FALSE
    /\ bpc' = "connect"
    /\ last' = Did(m, active, 0, 0)
    /\ UNCHANGED <<active, voice_stream_client, hostSent, clients>>

\* handle_messages, any other cmd or none: no branch is taken.
HandleOther(m) ==
    /\ Handling(m)
    /\ JsonError(m) = "ok"
    /\ m.cmd \notin {"start", "stop", "reload"}
    /\ last' = Did(m, active, 0, 0)
    /\ UNCHANGED <<active, voice_stream_client, hostOpen, hostSent, bpc, clients>>

\* ---- the threads of a VoiceStreamClient

Live(c) == c \in ClientIds /\ clients[c] # NoInstance

\* What only client c's step changes.
ClientStep(c, cl) ==
    /\ clients' = [clients EXCEPT ![c] = cl]
    /\ UNCHANGED <<active, voice_stream_client, ws, hostOpen, bpc, retry_delay,
                   max_retry_delay, sleeping,
                   last>>

\* The capture thread calls pyaudio_callback with a frame.
Capture(c) ==
    /\ Live(c)
    /\ clients[c].stream = "started"
    /\ clients[c].nFrames < MaxFrames
    /\ ClientStep(c, pyaudio_callback(clients[c]))
    /\ UNCHANGED hostSent

\* The loop runs the oldest queued send_audio task.
SendAudio(c) ==
    /\ Live(c)
    /\ clients[c].loop \in {"running", "stopping"}
    /\ clients[c].tasks # <<>>
    /\ ClientStep(c, send_audio(clients[c]))
    /\ UNCHANGED hostSent

\* connect_and_receive: the first connect ends.  When it raises, the task
\* ends with the exception and receive_response is never entered.
Opened(c, outcome) ==
    /\ Live(c)
    /\ clients[c].loop = "running"
    /\ clients[c].rpc = "opening"
    /\ clients[c].ws < MaxOpens
    /\ LET cl == connect(clients[c], outcome) IN
       ClientStep(c, [cl EXCEPT !.rpc = IF outcome = "ok" THEN LoopTop(cl)
                                        ELSE "dead"])
    /\ UNCHANGED hostSent

\* receive_response: ws.recv() returns a response and the callback is entered.
Receive(c, response) ==
    /\ Live(c)
    /\ clients[c].loop = "running"
    /\ clients[c].rpc = "recv"
    /\ clients[c].wsOpen
    /\ ClientStep(c, [clients[c] EXCEPT !.response = response,
                                        !.rpc = "callback"])
    /\ UNCHANGED hostSent

\* receive_response after `await self.callback(response)`: r is what the
\* callback did.  An exception that leaves it is caught here: ConnectionClosed
\* is taken for the transcription connection's and starts a reconnect, any
\* other is logged, and the loop goes on.  cb keeps how the callback ended.
after_callback(cl, r) ==
    LET done == [cl EXCEPT !.cb = IF r.exc = "none" THEN r.log ELSE r.exc,
                           !.response = NoResponse]
    IN IF r.exc = "ConnectionClosed"
       THEN [done EXCEPT !.rpc = "reopening"]
       ELSE [done EXCEPT !.rpc = LoopTop(cl)]

\* The callback decodes the response and sends the phrase on the bridge's
\* self.ws, from the client's loop thread.
Callback(c, sendOk) ==
    /\ Live(c)
    /\ clients[c].loop \in {"running", "stopping"}
    /\ clients[c].rpc = "callback"
    /\ Len(hostSent) < MaxSent
    /\ LET r == voice_stream_callback(clients[c].response,
                                      sendOk /\ ws # None /\ hostOpen) IN
       /\ hostSent' = hostSent \o r.sent
       /\ ClientStep(c, after_callback(clients[c], r))

\* receive_response: ws.recv() raises ConnectionClosed and the handler calls
\* connect, which awaits websockets.connect.
ReceiveClosed(c) ==
    /\ Live(c)
    /\ clients[c].loop = "running"
    /\ clients[c].rpc = "recv"
    /\ ~clients[c].wsOpen
    /\ ClientStep(c, [clients[c] EXCEPT !.rpc = "reopening"])
    /\ UNCHANGED hostSent

\* receive_response: the connect of the ConnectionClosed handler ends.  When
\* it raises, the exception leaves the handler and receive_response.
Reopened(c, outcome) ==
    /\ Live(c)
    /\ clients[c].loop = "running"
    /\ clients[c].rpc = "reopening"
    /\ clients[c].ws < MaxOpens
    /\ LET cl == connect(clients[c], outcome) IN
       ClientStep(c, [cl EXCEPT !.rpc = IF outcome = "ok" THEN LoopTop(cl)
                                        ELSE "dead"])
    /\ UNCHANGED hostSent

\* The transcription service closes the connection.
TranscriptionClosed(c) ==
    /\ Live(c)
    /\ clients[c].loop = "running"
    /\ clients[c].wsOpen
    /\ ClientStep(c, [clients[c] EXCEPT !.wsOpen = FALSE])
    /\ UNCHANGED hostSent

\* The loop thread runs loop.stop, queued by stop(), and run_forever returns.
LoopStopped(c) ==
    /\ Live(c)
    /\ clients[c].loop = "stopping"
    /\ ClientStep(c, Collect(c, voice_stream_client,
                              [clients[c] EXCEPT !.loop = "stopped"]))
    /\ UNCHANGED hostSent

\* The bridge and the sessions it runs.  What a VoiceStreamClient does on its
\* own (frames, the transcription connection closing and the reconnect) is
\* left to SessionSpec: the bridge reads none of it.
Next ==
    \/ \E o \in BridgeOutcomes : BridgeConnect(o)
    \/ \E d \in Draws : Sleep(d)
    \/ Backoff
    \/ \E clean \in BOOLEAN : HostClosed(clean)
    \/ \E m \in HostMsgs : HandleMalformed(m)
    \/ \E m \in HostMsgs, ok \in BOOLEAN, ctor \in CtorOutcomes : HandleStart(m, ok, ctor)
    \/ \E m \in HostMsgs, ok \in BOOLEAN, f \in StopFailures : HandleStop(m, ok, f)
    \/ \E m \in HostMsgs : HandleReload(m)
    \/ \E m \in HostMsgs : HandleOther(m)
    \/ \E c \in ClientIds, o \in ConnectOutcomes : Opened(c, o)
    \/ \E c \in ClientIds, r \in Responses : Receive(c, r)
    \/ \E c \in ClientIds, ok \in BOOLEAN : Callback(c, ok)
    \/ \E c \in ClientIds : LoopStopped(c)

Spec == Init /\ [][Next]_vars

\* ---- one session in full

StartMsgs == {m \in HostMsgs : m.cmd = "start"}

\* The bridge is connected and has handled a start command from Idle: hello
\* and the ack are sent and the instance is constructed and run.
SessionInit ==
    /\ active = TRUE
    /\ voice_stream_client = 1
    /\ ws = Connection
    /\ hostOpen = TRUE
    /\ hostSent = <<HostOut("hello"), HostOut("start")>>
    /\ bpc = "handle"
    /\ retry_delay = BaseDelay
    /\ max_retry_delay = DefaultMaxRetryDelay
    /\ sleeping = 0
    /\ \E m \in StartMsgs :
          /\ last = Did(m, FALSE, 1, 0)
          /\ clients = [c \in ClientIds |->
                          IF c = 1 THEN run(VoiceStreamClient(m.lang))
                          ELSE NoInstance]

\* The threads of the session's VoiceStreamClient, and the stop command that
\* ends it.
SessionNext ==
    \/ Capture(1)
    \/ SendAudio(1)
    \/ \E o \in ConnectOutcomes : Opened(1, o)
    \/ \E r \in Responses : Receive(1, r)
    \/ \E ok \in BOOLEAN : Callback(1, ok)
    \/ ReceiveClosed(1)
    \/ \E o \in ConnectOutcomes : Reopened(1, o)
    \/ TranscriptionClosed(1)
    \/ LoopStopped(1)
    \/ \E m \in HostMsgs, ok \in BOOLEAN, f \in StopFailures : HandleStop(m, ok, f)

SessionSpec == SessionInit /\ [][SessionNext]_vars

\* ---- the bridge up to the stop command, for every configured cap

ReconnectInit == \E cap \in Caps : Constructed(cap)

\* The bridge, the session it starts and the transcripts it forwards, across
\* losses of the host connection.
ReconnectNext ==
    \/ \E o \in BridgeOutcomes : BridgeConnect(o)
    \/ \E d \in Draws : Sleep(d)
    \/ Backoff
    \/ \E clean \in BOOLEAN : HostClosed(clean)
    \/ \E m \in HostMsgs : HandleMalformed(m)
    \/ \E m \in HostMsgs, ok \in BOOLEAN, ctor \in CtorOutcomes : HandleStart(m, ok, ctor)
    \/ \E m \in HostMsgs : HandleReload(m)
    \/ \E m \in HostMsgs : HandleOther(m)
    \/ \E c \in ClientIds, o \in ConnectOutcomes : Opened(c, o)
    \/ \E c \in ClientIds, r \in Responses : Receive(c, r)
    \/ \E c \in ClientIds, ok \in BOOLEAN : Callback(c, ok)

ReconnectSpec == ReconnectInit /\ [][ReconnectNext]_vars

\* ---- the two threads that send on the host connection
\*
\* connect runs on the main loop and voice_stream_callback on the loop thread
\* of the VoiceStreamClient, with nothing that orders them: here connect is
\* split at the assignment of self.ws and at the call of ws.send(hello), and
\* the callback at its call of self.ws.send.  A send that ends while the
\* other thread is inside send on the same connection puts its message on the
\* wire whole or not (Garbled): the connection object is not made for two
\* threads.

Garbled == [cmd |-> "garbled", transcript |-> "", confidence |-> 0]

WellFormed == {r \in Responses : JsonError(r) = "ok"}

\* connect: websockets.connect ends; when it has made the connection,
\* self.ws = websocket.
ConnectMade(outcome) ==
    /\ bpc = "connect"
    /\ hostSent' = <<>>
    /\ IF outcome = "refused"
       THEN /\ bpc' = "backoff"
            /\ UNCHANGED <<ws, hostOpen>>
       ELSE /\ ws' = Connection
            /\ hostOpen' = TRUE
            /\ bpc' = "hello"
    /\ UNCHANGED <<active, voice_stream_client, retry_delay, max_retry_delay,
                   sleeping, last, clients>>

\* connect calls self.ws.send with the hello message.
HelloBegin ==
    /\ bpc = "hello"
    /\ bpc' = "sending"
    /\ UNCHANGED <<active, voice_stream_client, ws, hostOpen, hostSent,
                   retry_delay, max_retry_delay, sleeping, last, clients>>

\* The send of hello ends: it has sent, and connect resets retry_delay and
\* enters handle_messages, or it raises.
HelloDone(sendOk, whole) ==
    /\ bpc = "sending"
    /\ whole \/ \E c \in ClientIds : clients[c].rpc = "sending"
    /\ IF sendOk /\ hostOpen
       THEN /\ Sent(IF whole THEN HostOut("hello") ELSE Garbled)
            /\ retry_delay' = BaseDelay
            /\ bpc' = "handle"
            /\ UNCHANGED hostOpen
       ELSE /\ Raised
            /\ UNCHANGED retry_delay
    /\ UNCHANGED <<active, voice_stream_client, ws, max_retry_delay, sleeping,
                   last, clients>>

\* voice_stream_callback has decoded the response and calls self.ws.send
\* with the phrase, on the connection self.ws is at that moment.
CallbackSending(c) ==
    /\ Live(c)
    /\ clients[c].loop \in {"running", "stopping"}
    /\ clients[c].rpc = "callback"
    /\ JsonError(clients[c].response) = "ok"
    /\ ws # None
    /\ ClientStep(c, [clients[c] EXCEPT !.rpc = "sending"])
    /\ UNCHANGED hostSent

\* The send of the phrase ends and the callback returns to receive_response.
CallbackSent(c, sendOk, whole) ==
    /\ Live(c)
    /\ clients[c].rpc = "sending"
    /\ Len(hostSent) < MaxSent
    /\ whole \/ bpc = "sending"
    /\ LET r == voice_stream_callback(clients[c].response, sendOk /\ hostOpen) IN
       /\ hostSent' = hostSent \o (IF whole \/ r.sent = <<>> THEN r.sent
                                    ELSE <<Garbled>>)
       /\ ClientStep(c, after_callback(clients[c], r))

\* An Active session whose host connection has just been closed by the host
\* with a close frame: connect is at its next websockets.connect.
ThreadInit ==
    /\ active = TRUE
    /\ voice_stream_client = 1
    /\ ws = Connection
    /\ hostOpen = FALSE
    /\ hostSent = <<>>
    /\ bpc = "connect"
    /\ retry_delay = BaseDelay
    /\ max_retry_delay = DefaultMaxRetryDelay
    /\ sleeping = 0
    /\ \E m \in StartMsgs :
          /\ last = Did(m, FALSE, 1, 0)
          /\ clients = [c \in ClientIds |->
                          IF c = 1 THEN run(VoiceStreamClient(m.lang))
                          ELSE NoInstance]

ThreadNext ==
    \/ \E o \in {"ok", "refused"} : ConnectMade(o)
    \/ HelloBegin
    \/ \E ok \in BOOLEAN, whole \in BOOLEAN : HelloDone(ok, whole)
    \/ \E d \in Draws : Sleep(d)
    \/ Backoff
    \/ \E clean \in BOOLEAN : HostClosed(clean)
    \/ \E o \in ConnectOutcomes : Opened(1, o)
    \/ \E r \in WellFormed : Receive(1, r)
    \/ CallbackSending(1)
    \/ \E ok \in BOOLEAN, whole \in BOOLEAN : CallbackSent(1, ok, whole)

ThreadSpec == ThreadInit /\ [][ThreadNext]_vars

\* ---- the claims

StartStep == \E m \in HostMsgs, ok \in BOOLEAN, ctor \in CtorOutcomes : HandleStart(m, ok, ctor)
StopStep == \E m \in HostMsgs, ok \in BOOLEAN, f \in StopFailures : HandleStop(m, ok, f)

\* The instances that exist: constructed and not yet stopped and dropped.
Existing == {c \in ClientIds : clients[c] # NoInstance}

\* The instance c has been run and not stopped.
Running(c) ==
    /\ c \in Existing
    /\ clients[c].loop = "running"
    /\ ~clients[c].stop_event


\* C1: at most one VoiceStreamClient exists at any time; a Start handled while
\* Active constructs nothing and sends nothing; two consecutive Starts (the
\* first from Idle) construct exactly one instance, and two consecutive Stops
\* (the first from Active) make exactly one stop() call.
C1_StartStopIdempotent ==
    [][/\ Cardinality(Existing') <= 1
       /\ (StartStep /\ active) =>
             (clients' = clients /\ hostSent' = hostSent)
       /\ (StartStep /\ last.cmd = "start" /\ ~last.preActive) =>
             last.created + last'.created = 1
       /\ (StopStep /\ last.cmd = "stop" /\ last.preActive) =>
             last.stops + last'.stops = 1]_vars

\* C2: a Stop handled while Idle sends nothing to the host, tears nothing
\* down, raises nothing and leaves the session Idle.
C2_StopWhileIdleNoOp ==
    [][(StopStep /\ ~active) =>
          /\ hostSent' = hostSent
          /\ clients' = clients
          /\ voice_stream_client' = voice_stream_client
          /\ hostOpen' /\ bpc' = "handle"
          /\ ~active']_vars

\* C3: a Start{lang} handled while Idle sends one start ack and leaves the
\* session Active with a running VoiceStreamClient whose language is lang.
C3_StartFromIdle ==
    [][\A m \in StartMsgs :
          ((\E ok \in BOOLEAN, ctor \in CtorOutcomes : HandleStart(m, ok, ctor))
           /\ ~active) =>
             /\ hostSent' = Append(hostSent, HostOut("start"))
             /\ active'
             /\ voice_stream_client' # None
             /\ Running(voice_stream_client)'
             /\ clients'[voice_stream_client'].language = m.lang]_vars

\* C4: between two commands the session is Active if and only if a
\* VoiceStreamClient exists and is running.
C4_NeverHalfOpen ==
    active <=> (voice_stream_client # None /\ Running(voice_stream_client))

\* C5: on every transcription connection the config is the first message sent
\* and every later message is a frame.
C5_ConfigFirst ==
    \A c \in Existing :
       LET wire == clients[c].wire IN
       wire # <<>> =>
          /\ wire[1] = Config(clients[c].language)
          /\ \A i \in 2..Len(wire) : wire[i].type = "audio"

\* A frame has been sent after the config on a connection made by a reconnect.
C5_Witness ==
    \E c \in Existing :
       clients[c].ws = 2 /\ Len(clients[c].wire) >= 2

ConfigsOn(wire) == Cardinality({i \in 1..Len(wire) : wire[i].type = "config"})

\* C6: no connection carries more than one config and an open one carries
\* exactly one; when the receive loop has seen ConnectionClosed and its one
\* connect ends, either the next connection is open, the config of the
\* instance is the one message sent on it and the loop is back at ws.recv(),
\* or the connect has raised (the case of C7).
C6_ReconnectResendsConfig ==
    [][\A c \in Existing \cap Existing' :
          /\ ConfigsOn(clients'[c].wire) <= 1
          /\ clients'[c].wsOpen => ConfigsOn(clients'[c].wire) = 1
          /\ (clients[c].rpc = "reopening" /\ clients'[c].rpc # "reopening"
              /\ clients'[c].loop = "running") =>
                IF clients'[c].wsOpen
                THEN /\ clients'[c].ws = clients[c].ws + 1
                     /\ clients'[c].wire = <<Config(clients[c].language)>>
                     /\ clients'[c].rpc = "recv"
                ELSE clients'[c].rpc = "dead"]_vars

\* The loop receives again on the second connection, after a reconnect of an
\* instance whose language is not the default.
C6_Witness ==
    \E c \in Existing :
       /\ clients[c].ws = 2 /\ clients[c].wsOpen
       /\ clients[c].rpc = "recv"
       /\ clients[c].language = "french"

\* C7: while the client has not been stopped, a failed connect does not end
\* its connect_and_receive task.
C7_ConnectFailureNotFatal ==
    \A c \in Existing :
       ~clients[c].stop_event => clients[c].rpc # "dead"

\* C8: when stop_speech calls stop() on the instance, stop() leaves it with
\* the stop event set, the loop stopping or stopped, the capture stream
\* closed, PyAudio terminated and the transcription connection closed,
\* whether or not a step of stop() raised.
C8_StopReleasesAll ==
    [][\A c \in ClientIds, f \in StopFailures :
          ((\E m \in HostMsgs, ok \in BOOLEAN : HandleStop(m, ok, f))
           /\ voice_stream_client = c /\ last'.stops = 1) =>
             LET cl == stop(clients[c], f) IN
             /\ cl.stop_event
             /\ cl.loop # "running"
             /\ cl.stream = "closed"
             /\ cl.audio = "terminated"
             /\ ~cl.wsOpen]_vars

\* C9: no exception leaves voice_stream_callback, whatever the response and
\* whatever the outcome of its send, and it changes neither active nor
\* voice_stream_client, which only the handlers of start and stop write.
C9_CallbackContained ==
    [][/\ \A c \in ClientIds :
             (\E ok \in BOOLEAN : Callback(c, ok)) =>
                /\ clients'[c].cb \in {"phrase", "Error decoding JSON",
                                        "Error in voice stream callback"}
                /\ active' = active
                /\ voice_stream_client' = voice_stream_client
       /\ (active' # active \/ voice_stream_client' # voice_stream_client) =>
             (StartStep \/ StopStep)]_vars

\* Callbacks have dropped a response and failed to send a phrase while the
\* session stayed Active.
C9_Witness ==
    /\ active
    /\ \E c \in ClientIds :
          /\ voice_stream_client = c
          /\ clients[c].cb = "Error in voice stream callback"
          /\ clients[c].rpc = "recv"

\* C10: a host message that is not JSON or not an object is dropped: the
\* connection stays open, the session and the client are unchanged, no
\* backoff starts and handle_messages goes on.
C10_MalformedDropped ==
    [][(\E m \in HostMsgs : HandleMalformed(m)) =>
          /\ hostOpen' /\ bpc' = "handle"
          /\ UNCHANGED <<active, voice_stream_client, ws, retry_delay, clients>>]_vars

SleepStep == \E d \in Draws : Sleep(d)
ReloadStep == \E m \in HostMsgs : HandleReload(m)

\* C11: connect stays in its loop; every loss of the host connection, other
\* than the return of handle_messages on reload, and every failed connection
\* attempt enters a handler that sleeps the backoff; after the sleep comes a
\* new attempt; a connection that is made starts with hello.
C11_LossBacksOffAndReconnects ==
    [][/\ bpc' \in {"connect", "handle", "backoff", "sleeping"}
       /\ (hostOpen /\ ~hostOpen' /\ ~ReloadStep) => bpc' = "backoff"
       /\ (bpc = "connect" /\ bpc' # "connect" /\ ~hostOpen') => bpc' = "backoff"
       /\ (bpc = "backoff" /\ bpc' # "backoff") => (bpc' = "sleeping" /\ sleeping' > 0)
       /\ (bpc = "sleeping" /\ bpc' # "sleeping") => bpc' = "connect"
       /\ (~hostOpen /\ hostOpen') => hostSent' = <<HostOut("hello")>>]_vars

\* The delays d_0 = d, d_(k+1) = min(2 * d_k, cap).
RECURSIVE DelaysFrom(_, _)
DelaysFrom(d, cap) ==
    LET next == Min(2 * d, cap) IN
    IF next = d THEN {d} ELSE {d} \cup DelaysFrom(next, cap)

\* C13 as stated, for every configured cap: the delay is one of d_0 = 0.5,
\* d_(k+1) = min(2 * d_k, cap); after a failure it is min(2 * delay, cap) and
\* not less than before; a sleep is between the delay and 1.1 times the
\* delay; no sleep exceeds 1.1 times the cap.
C13_BackoffEveryCap ==
    [][/\ retry_delay' \in DelaysFrom(BaseDelay, max_retry_delay)
       /\ Backoff =>
             /\ retry_delay' = Min(2 * retry_delay, max_retry_delay)
             /\ retry_delay' >= retry_delay
       /\ SleepStep =>
             /\ sleeping' >= retry_delay
             /\ 10 * sleeping' <= 11 * retry_delay
       /\ 10 * sleeping' <= 11 * max_retry_delay]_vars

\* C13 amended: the same for every configured cap that is at least the base
\* delay 0.5.
C13_BackoffCapAtLeastBase ==
    [][max_retry_delay >= BaseDelay =>
          /\ retry_delay' \in DelaysFrom(BaseDelay, max_retry_delay)
          /\ Backoff =>
                /\ retry_delay' = Min(2 * retry_delay, max_retry_delay)
                /\ retry_delay' >= retry_delay
          /\ SleepStep =>
                /\ sleeping' >= retry_delay
                /\ 10 * sleeping' <= 11 * retry_delay
          /\ 10 * sleeping' <= 11 * max_retry_delay]_vars

\* With the cap 1.5 s the bridge sleeps the capped delay with the greatest
\* jitter, 1.65 s, after the delays 0.5 and 1.0.
C13_Witness ==
    /\ max_retry_delay = 300
    /\ bpc = "sleeping"
    /\ sleeping = 330

\* C14: when the connection is made and hello is sent, retry_delay is the
\* base delay again, whatever it had grown to; it is the base delay all
\* through handle_messages and in the handler of the failure that ends it,
\* and the sleep of a handler is its retry_delay plus the jitter.
C14_ResetOnConnect ==
    [][/\ ((\E o \in BridgeOutcomes : BridgeConnect(o)) /\ hostOpen') =>
             retry_delay' = BaseDelay
       /\ bpc = "handle" =>
             /\ retry_delay = BaseDelay
             /\ retry_delay' = BaseDelay
       /\ SleepStep =>
             /\ sleeping' >= retry_delay
             /\ 10 * sleeping' <= 11 * retry_delay]_vars

\* A connection was made with the cap 1.5 s and a message handled on it, and
\* the bridge sleeps the base delay with the greatest jitter, 0.55 s.
C14_Witness ==
    /\ max_retry_delay = 300
    /\ last.cmd # "none"
    /\ bpc = "sleeping"
    /\ sleeping = BaseDelay + BaseDelay \div 10

\* The frames sent on the connection, in the order of the wire.
FramesOn(wire) ==
    LET audio == SelectSeq(wire, LAMBDA msg : msg.type = "audio")
    IN [i \in 1..Len(audio) |-> audio[i].frame]

\* C12: the frames sent on a connection are in capture order (frames are
\* numbered as pyaudio_callback receives them), and so are the pending
\* send_audio tasks.
C12_FramesInCaptureOrder ==
    \A c \in Existing :
       LET sent == FramesOn(clients[c].wire)
           tasks == clients[c].tasks
       IN /\ \A i, j \in 1..Len(sent) : i < j => sent[i] < sent[j]
          /\ \A i, j \in 1..Len(tasks) : i < j => tasks[i] < tasks[j]
          /\ \A i \in 1..Len(sent), j \in 1..Len(tasks) : sent[i] < tasks[j]

\* Two frames captured one after the other are both on the wire of one
\* connection.
C12_Witness ==
    \E c \in Existing : Len(FramesOn(clients[c].wire)) >= 2

\* C17: a send_audio that runs with no open connection sends nothing, takes
\* its frame off the loop and changes nothing of capture or of the receive
\* loop; a frame so dropped is never pending again and never on the wire of
\* any connection.
C17_DisconnectedFrameDropped ==
    [][\A c \in Existing \cap Existing' :
          LET cl == clients[c]
              after == clients'[c]
          IN /\ \A f \in after.dropped :
                   /\ \A i \in 1..Len(after.tasks) : after.tasks[i] # f
                   /\ \A i \in 1..Len(after.wire) : after.wire[i] # Audio(f)
             /\ (SendAudio(c) /\ ~(cl.ws # None /\ cl.wsOpen)) =>
                   /\ Head(cl.tasks) \in after.dropped
                   /\ after.tasks = Tail(cl.tasks)
                   /\ after.wire = cl.wire
                   /\ after.stream = cl.stream
                   /\ after.rpc = cl.rpc
                   /\ after.loop = cl.loop]_vars

\* The first frame was dropped, and after the reconnect the second frame is
\* the only one on the second connection.
C17_Witness ==
    \E c \in Existing :
       /\ clients[c].dropped = {1}
       /\ clients[c].ws = 2
       /\ clients[c].wire = <<Config(clients[c].language), Audio(2)>>

\* C15: handling reload ends handle_messages: the connection is closed, so
\* that no later command of it is handled, and connect is at its next
\* attempt; nothing is sent; active, voice_stream_client and the instances
\* are unchanged.
C15_ReloadReturns ==
    [][ReloadStep =>
          /\ ~hostOpen'
          /\ bpc' = "connect"
          /\ hostSent' = hostSent
          /\ UNCHANGED <<active, voice_stream_client, clients>>]_vars

\* A reload was handled while the session was Active: the connection on
\* which hello and the start ack were sent is closed, the session is Active
\* with its instance.
C15_Witness ==
    /\ active /\ voice_stream_client # None
    /\ ~hostOpen /\ bpc = "connect"
    /\ hostSent = <<HostOut("hello"), HostOut("start")>>

\* A step that sends a phrase on the host connection.
PhraseSent ==
    /\ Len(hostSent') = Len(hostSent) + 1
    /\ hostSent'[Len(hostSent')].cmd = "phrase"

\* C18: a phrase is sent to the host only while the session is Active, so
\* none is sent once a stop command has been handled.
C18_PhraseOnlyWhileActive == [][PhraseSent => active]_vars

\* The steps by which the host connection is lost and made again.
ReconnectStep ==
    \/ \E clean \in BOOLEAN : HostClosed(clean)
    \/ SleepStep
    \/ Backoff
    \/ \E o \in BridgeOutcomes : BridgeConnect(o)

\* C20: the loss of the host connection, the backoff and the new connection
\* leave active, voice_stream_client and the instances as they are; a start
\* command handled while Active, on the new connection as on any, changes
\* nothing and sends nothing; a transcript whose callback runs while a host
\* connection is open is sent as a phrase on that connection, the new one
\* after a reconnect.
C20_SessionSurvivesReconnect ==
    [][/\ ReconnectStep => UNCHANGED <<active, voice_stream_client, clients>>
       /\ (StartStep /\ active) =>
             UNCHANGED <<active, voice_stream_client, clients, hostOpen,
                         hostSent, bpc>>
       /\ \A c \in ClientIds :
             (Callback(c, TRUE) /\ hostOpen
                /\ JsonError(clients[c].response) = "ok") =>
               hostSent' = Append(hostSent,
                                  Phrase(Get(clients[c].response.text, ""),
                                         GetNumber(clients[c].response.confidence, 0)))
      ]_vars

\* On a connection made after the session's start (its hello is not followed
\* by a start ack) the session is Active with its instance, a start command
\* was handled while Active, and a transcript was forwarded.
C20_Witness ==
    /\ active /\ voice_stream_client # None
    /\ hostOpen
    /\ Len(hostSent) = 2
    /\ hostSent[1] = HostOut("hello")
    /\ hostSent[2].cmd = "phrase"
    /\ last.cmd = "start" /\ last.preActive

\* C16: no two activities are inside a send on the same connection at once,
\* and no message on the host connection is garbled.
C16_OneSenderPerConnection ==
    /\ ~(bpc = "sending" /\ \E c \in Existing : clients[c].rpc = "sending")
    /\ \A i \in 1..Len(hostSent) : hostSent[i] # Garbled

\* C19: the first message on every host connection is hello.
C19_HelloFirst == hostSent # <<>> => hostSent[1] = HostOut("hello")

====
